---------------------------- MODULE Spec2Model ----------------------------
(***************************************************************************)
(* A model of reprutils.py: identifier, standard_repr and the GetattrRepr  *)
(* descriptor (construction, __get__, __call__).                           *)
(*                                                                         *)
(* Python values are records [t, s, n, e]: the type tag, the text payload  *)
(* (str, bytes), the number (int, bool) and the elements (tuple, list, and *)
(* the byte values of a bytes object).  Strings of the output are TLA+     *)
(* strings, built by concatenation as the code builds them.  String        *)
(* payloads are plain ASCII without quotes or escapes.                     *)
(***************************************************************************)
EXTENDS Integers, Sequences, FiniteSets, TLC

VARIABLES
    PY2,        \* sys.version_info < (3,)
    KwOrdered,  \* the runtime's **kwargs dict iterates in call order
    objs,       \* the instances: id -> [cls, attrs]
    state,      \* the descriptor: "none" | "built" | "failed" (constructor raised)
    ctor,       \* the constructor call as written: [args, kwargs]
    self,       \* the descriptor's fields: [args, kwargs]
    bound,      \* what the last __get__ returned: [kind, inst]
    op,         \* the last operation: [name, inst, extra]
    result,     \* its outcome: [kind, val]
    sr,         \* the last direct standard_repr call: [obj, args, kwargs]
    forms,      \* the descriptors of the three spellings of one call: see SpecSugar
    outs        \* their outcomes on one instance

vars == <<PY2, KwOrdered, objs, state, ctor, self, bound, op, result, sr, forms, outs>>

---------------------------------------------------------------------------
(* Bounds of the model *)

MaxPos == 2     \* positional names of a constructor call, before the last argument
MaxTrail == 2   \* items of the trailing collection
MaxV == 2       \* positional values of a direct standard_repr call
MaxK == 2       \* keyword pairs of a direct standard_repr call

---------------------------------------------------------------------------
(* Python values *)

Val(t, s, n, e) == [t |-> t, s |-> s, n |-> n, e |-> e]
None == Val("NoneType", "", 0, <<>>)
PyBool(b) == Val("bool", "", IF b THEN 1 ELSE 0, <<>>)
PyInt(n) == Val("int", "", n, <<>>)
PyStr(s) == Val("str", s, 0, <<>>)            \* text: unicode on Python 2, str on Python 3
PyTuple(e) == Val("tuple", "", 0, e)
PyList(e) == Val("list", "", 0, e)
\* bytes: str on Python 2, bytes on Python 3.  e holds the byte values, which
\* iterating a bytes object yields on Python 3.
BytesA == Val("bytes", "a", 0, <<PyInt(97)>>)
BytesAB == Val("bytes", "ab", 0, <<PyInt(97), PyInt(98)>>)

Return(v) == [kind |-> "return", val |-> v]
Raise(exc) == [kind |-> exc, val |-> ""]

SeqsUpTo(S, n) == UNION {[1..k -> S] : k \in 0..n}

Digit(d) ==
    CASE d = 0 -> "0" [] d = 1 -> "1" [] d = 2 -> "2" [] d = 3 -> "3"
      [] d = 4 -> "4" [] d = 5 -> "5" [] d = 6 -> "6" [] d = 7 -> "7"
      [] d = 8 -> "8" [] d = 9 -> "9"

RECURSIVE NatRepr(_)
NatRepr(n) == IF n < 10 THEN Digit(n) ELSE NatRepr(n \div 10) \o Digit(n % 10)

IntRepr(n) == IF n < 0 THEN "-" \o NatRepr(-n) ELSE NatRepr(n)

RECURSIVE join(_, _)
\* sep.join(items)
join(sep, items) ==
    IF Len(items) = 0 THEN ""
    ELSE IF Len(items) = 1 THEN items[1]
    ELSE items[1] \o sep \o join(sep, Tail(items))

RECURSIVE repr(_)
\* The builtin repr, as standard_repr applies it to each value.
repr(v) ==
    CASE v.t = "NoneType" -> "None"
      [] v.t = "bool" -> IF v.n = 1 THEN "True" ELSE "False"
      [] v.t = "int" -> IntRepr(v.n)
      [] v.t = "str" -> (IF PY2 THEN "u'" ELSE "'") \o v.s \o "'"
      [] v.t = "bytes" -> (IF PY2 THEN "'" ELSE "b'") \o v.s \o "'"
      [] v.t = "tuple" ->
            IF Len(v.e) = 1 THEN "(" \o repr(v.e[1]) \o ",)"
            ELSE "(" \o join(", ", [i \in 1..Len(v.e) |-> repr(v.e[i])]) \o ")"
      [] v.t = "list" ->
            "[" \o join(", ", [i \in 1..Len(v.e) |-> repr(v.e[i])]) \o "]"

---------------------------------------------------------------------------
(* reprutils.py *)

\* The type tags that are instances of string_base: basestring on Python 2,
\* str on Python 3.
string_base == IF PY2 THEN {"str", "bytes"} ELSE {"str"}

isinstance(v, types) == v.t \in types

identifier(cls) == cls.module \o "." \o cls.name

\* '{0}={1!r}'.format(kwarg, value), for a kwarg that passed the string check
format(kwarg, value) == kwarg.s \o "=" \o repr(value)

\* standard_repr with the keyword items chained before the positional ones
standard_repr_kwfirst(obj, args, kwargs) ==
    LET a == IF args = None THEN PyList(<<>>) ELSE args
        k == IF kwargs = None THEN PyList(<<>>) ELSE kwargs
    IN  IF ~ \A i \in 1..Len(k.e) : isinstance(k.e[i].e[1], string_base)
        THEN Raise("TypeError")
        ELSE LET items == [i \in 1..Len(k.e) |-> format(k.e[i].e[1], k.e[i].e[2])]
                          \o [i \in 1..Len(a.e) |-> repr(a.e[i])]
             IN  Return(join("", <<identifier(obj.cls), "(", join(", ", items), ")">>))

\* standard_repr with any() for all(): one string label passes the check, and
\* a label that is no string is formatted by its repr
standard_repr_any(obj, args, kwargs) ==
    LET a == IF args = None THEN PyList(<<>>) ELSE args
        k == IF kwargs = None THEN PyList(<<>>) ELSE kwargs
        label(v) == IF isinstance(v, string_base) THEN v.s ELSE repr(v)
    IN  IF Len(k.e) > 0 /\ ~ \E i \in 1..Len(k.e) : isinstance(k.e[i].e[1], string_base)
        THEN Raise("TypeError")
        ELSE LET items == [i \in 1..Len(a.e) |-> repr(a.e[i])]
                          \o [i \in 1..Len(k.e) |->
                                label(k.e[i].e[1]) \o "=" \o repr(k.e[i].e[2])]
             IN  Return(join("", <<identifier(obj.cls), "(", join(", ", items), ")">>))

\* args and kwargs are Python values: None or a list; a kwargs entry is a
\* (kwarg, value) tuple.
standard_repr(obj, args, kwargs) ==
    LET a == IF args = None THEN PyList(<<>>) ELSE args
        k == IF kwargs = None THEN PyList(<<>>) ELSE kwargs
    IN  IF ~ \A i \in 1..Len(k.e) : isinstance(k.e[i].e[1], string_base)
        THEN Raise("TypeError")
        ELSE LET items == [i \in 1..Len(a.e) |-> repr(a.e[i])]
                          \o [i \in 1..Len(k.e) |-> format(k.e[i].e[1], k.e[i].e[2])]
             IN  Return(join("", <<identifier(obj.cls), "(", join(", ", items), ")">>))

---------------------------------------------------------------------------
(* The instances and the runtime *)

DummyClass == [module |-> "testreprutils", name |-> "DummyClass"]
MyClass == [module |-> "__main__", name |-> "MyClass"]

Objs == <<[cls |-> DummyClass, attrs |-> [a |-> PyInt(1), b |-> PyStr("asdf")]],
          [cls |-> MyClass, attrs |-> [a |-> None]]>>

ObjIds == DOMAIN Objs

NoCtor == [args |-> <<>>, kwargs |-> <<>>]
NoSelf == [args |-> <<>>, kwargs |-> <<>>]
NoBound == [kind |-> "none", inst |-> 0]
NoOp == [name |-> "none", inst |-> 0, extra |-> <<>>]
NoResult == [kind |-> "none", val |-> ""]
NoSr == [obj |-> 0, args |-> None, kwargs |-> None]
Unbuilt == [built |-> FALSE, args |-> <<>>, kwargs |-> <<>>]
NoForms == [i \in 1..3 |-> Unbuilt]
NoOuts == <<>>

\* Python 2.6 to 3.3 (setup.py's classifiers) iterate a **kwargs dict in
\* hash order; a runtime that keeps call order is a Python 3.
RuntimeInit ==
    /\ PY2 \in BOOLEAN
    /\ KwOrdered \in BOOLEAN
    /\ PY2 => ~KwOrdered
    /\ objs = Objs

---------------------------------------------------------------------------
(* Direct calls of standard_repr *)

SrValues == {PyInt(-1), None, PyStr("asdf"), BytesAB}
SrPairs == {PyTuple(<<PyStr("arg"), PyInt(12)>>), PyTuple(<<PyStr("kw"), PyBool(TRUE)>>),
            PyTuple(<<PyInt(1), PyStr("x")>>), PyTuple(<<BytesA, PyInt(12)>>)}
SrArgs == {None} \cup {PyList(e) : e \in SeqsUpTo(SrValues, MaxV)}
SrKwargs == {None} \cup {PyList(e) : e \in SeqsUpTo(SrPairs, MaxK)}

InitRepr ==
    /\ RuntimeInit /\ ~KwOrdered
    /\ state = "none" /\ ctor = NoCtor /\ self = NoSelf /\ bound = NoBound
    /\ op = NoOp /\ result = NoResult /\ sr = NoSr
    /\ forms = NoForms /\ outs = NoOuts

\* standard_repr is stateless: a behaviour makes one call, on any inputs.
StandardRepr(o, args, kwargs) ==
    /\ op = NoOp
    /\ sr' = [obj |-> o, args |-> args, kwargs |-> kwargs]
    /\ op' = [name |-> "standard_repr", inst |-> o, extra |-> <<>>]
    /\ result' = standard_repr(objs[o], args, kwargs)
    /\ UNCHANGED <<PY2, KwOrdered, objs, state, ctor, self, bound, forms, outs>>

NextRepr == \E o \in ObjIds, args \in SrArgs, kwargs \in SrKwargs : StandardRepr(o, args, kwargs)

SpecRepr == InitRepr /\ [][NextRepr]_vars

---------------------------------------------------------------------------
(* GetattrRepr *)

Last(s) == s[Len(s)]
Front(s) == SubSeq(s, 1, Len(s) - 1)
Least(S) == CHOOSE i \in S : \A j \in S : i <= j

Perms(n) == {p \in [1..n -> 1..n] : \A i, j \in 1..n : p[i] = p[j] => i = j}

\* iteritems(kwargs): the orders in which the runtime may iterate the dict of
\* the call's keyword arguments, given here in call order as (key, value)
\* tuples.
iteritems(kwargs) ==
    IF KwOrdered THEN {kwargs}
    ELSE {[i \in 1..Len(kwargs) |-> kwargs[p[i]]] : p \in Perms(Len(kwargs))}

\* Whether iter(v) succeeds, for the values of the model: a str is never
\* iterated (it is a string_base), a bytes only on Python 3.
iterable(v) == v.t \in {"tuple", "list", "bytes"}

\* What iterating v yields: the elements, and the byte values of a bytes.
iter(v) == v.e

\* __init__ with the explicit keyword arguments placed before the entries of
\* the trailing collection
GetattrRepr_init_kwfirst(args, kwitems) ==
    IF Len(args) > 0 /\ ~isinstance(Last(args), string_base)
    THEN IF ~iterable(Last(args)) THEN Raise("TypeError")
         ELSE LET trailing == iter(Last(args))
              IN  Return([args |-> Front(args),
                          kwargs |-> kwitems
                                     \o [i \in 1..Len(trailing) |->
                                           IF ~isinstance(trailing[i], string_base)
                                           THEN trailing[i]
                                           ELSE PyTuple(<<trailing[i], trailing[i]>>)]])
    ELSE Return([args |-> args, kwargs |-> kwitems])

\* __init__ that keeps a bare name of the trailing collection as it is
GetattrRepr_init_noexpand(args, kwitems) ==
    IF Len(args) > 0 /\ ~isinstance(Last(args), string_base)
    THEN IF ~iterable(Last(args)) THEN Raise("TypeError")
         ELSE Return([args |-> Front(args), kwargs |-> iter(Last(args)) \o kwitems])
    ELSE Return([args |-> args, kwargs |-> kwitems])

\* __init__(self, *args, **kwargs): kwitems is iteritems(kwargs) in the order
\* the runtime took.  Returns the fields of self, or raises.
GetattrRepr_init(args, kwitems) ==
    IF Len(args) > 0 /\ ~isinstance(Last(args), string_base)
    THEN IF ~iterable(Last(args)) THEN Raise("TypeError")
         ELSE LET trailing == iter(Last(args))
              IN  Return([args |-> Front(args),
                          kwargs |-> [i \in 1..Len(trailing) |->
                                        IF ~isinstance(trailing[i], string_base)
                                        THEN trailing[i]
                                        ELSE PyTuple(<<trailing[i], trailing[i]>>)]
                                     \o kwitems])
    ELSE Return([args |-> args, kwargs |-> kwitems])

\* The builtin getattr(instance, name), as my_getattr applies it: the name
\* must be a string of the runtime, and the attribute must exist.
my_getattr(instance, name) ==
    IF ~(name.t \in (IF PY2 THEN {"str", "bytes"} ELSE {"str"})) THEN Raise("TypeError")
    ELSE IF name.s \in DOMAIN instance.attrs THEN Return(instance.attrs[name.s])
    ELSE Raise("AttributeError")

\* kwarg_entry that looks up the label k instead of the attribute name v
kwarg_entry_bylabel(instance, item) ==
    IF ~iterable(item) THEN Raise("TypeError")
    ELSE IF Len(iter(item)) # 2 THEN Raise("ValueError")
    ELSE LET got == my_getattr(instance, iter(item)[1])
         IN  IF got.kind = "return" THEN Return(PyTuple(<<iter(item)[1], got.val>>))
             ELSE got

\* One step of [(k, my_getattr(v)) for k, v in self.kwargs]: the unpacking of
\* an entry into k, v and the lookup of v.
kwarg_entry(instance, item) ==
    IF ~iterable(item) THEN Raise("TypeError")
    ELSE IF Len(iter(item)) # 2 THEN Raise("ValueError")
    ELSE LET got == my_getattr(instance, iter(item)[2])
         IN  IF got.kind = "return" THEN Return(PyTuple(<<iter(item)[1], got.val>>))
             ELSE got

\* __call__(self, instance): the positional lookups, then the keyword ones,
\* then standard_repr; the first error raised is the call's.
GetattrRepr_call(slf, instance) ==
    LET pos == [i \in 1..Len(slf.args) |-> my_getattr(instance, slf.args[i])]
        posBad == {i \in 1..Len(slf.args) : pos[i].kind # "return"}
        kw == [i \in 1..Len(slf.kwargs) |-> kwarg_entry(instance, slf.kwargs[i])]
        kwBad == {i \in 1..Len(slf.kwargs) : kw[i].kind # "return"}
    IN  IF posBad # {} THEN Raise(pos[Least(posBad)].kind)
        ELSE IF kwBad # {} THEN Raise(kw[Least(kwBad)].kind)
        ELSE standard_repr(instance,
                           PyList([i \in 1..Len(slf.args) |-> pos[i].val]),
                           PyList([i \in 1..Len(slf.kwargs) |-> kw[i].val]))

\* __get__ that returns self whatever the instance
GetattrRepr_get_unbound(instance) == [kind |-> "descriptor", inst |-> 0]

\* __get__(self, instance, owner): instance is an id, or 0 for None (access
\* through the class).  types.MethodType(self.__call__, instance) is a method
\* of self.__call__ bound to instance.
GetattrRepr_get(instance) ==
    IF instance = 0 THEN [kind |-> "descriptor", inst |-> 0]
    ELSE [kind |-> "method", inst |-> instance]

\* Calling what __get__ returned with the arguments extra: a bound method
\* passes its instance first; __call__ takes exactly one argument.
call_bound(b, slf, extra) ==
    LET passed == IF b.kind = "method" THEN <<b.inst>> \o extra ELSE extra
    IN  IF Len(passed) # 1 THEN Raise("TypeError")
        ELSE GetattrRepr_call(slf, objs[passed[1]])

---------------------------------------------------------------------------
(* The descriptor's life: one construction, then any invocations *)

PosVals == {PyStr("a"), PyStr("b"), PyList(<<PyStr("a")>>)}
TrailItems == {PyStr("b"), PyTuple(<<PyStr("k"), PyStr("a")>>)}
\* the last argument, when it is not a name: a list of names and pairs, a pair
\* with a label that is no string, a tuple of names, a bytes, an int
Trailing == {PyList(e) : e \in SeqsUpTo(TrailItems, MaxTrail)}
            \cup {PyList(<<PyTuple(<<PyInt(1), PyStr("b")>>)>>),
                  PyTuple(<<PyStr("a"), PyStr("b")>>), BytesA, PyInt(5)}
CtorArgs == SeqsUpTo(PosVals, MaxPos)
            \cup {p \o <<t>> : p \in SeqsUpTo(PosVals, MaxPos), t \in Trailing}
KwPairs == {PyTuple(<<PyStr("k"), PyStr("a")>>), PyTuple(<<PyStr("b"), PyStr("b")>>)}
\* a call's keyword arguments: distinct keywords, in call order.  A keyword is
\* given as text: the str key of a Python 2 kwargs dict equals the unicode
\* name and formats to the same label.
CtorKwargs == {k \in SeqsUpTo(KwPairs, Cardinality(KwPairs)) :
                 \A i, j \in 1..Len(k) : k[i].e[1] = k[j].e[1] => i = j}

Init ==
    /\ RuntimeInit
    /\ state = "none" /\ ctor = NoCtor /\ self = NoSelf /\ bound = NoBound
    /\ op = NoOp /\ result = NoResult /\ sr = NoSr
    /\ forms = NoForms /\ outs = NoOuts

\* GetattrRepr(*args, **kwargs)
Construct(args, kwargs) ==
    /\ state = "none"
    /\ \E kwitems \in iteritems(kwargs) :
         LET r == GetattrRepr_init(args, kwitems)
         IN  /\ state' = IF r.kind = "return" THEN "built" ELSE "failed"
             /\ self' = IF r.kind = "return" THEN r.val ELSE NoSelf
             /\ result' = [kind |-> r.kind, val |-> ""]
    /\ ctor' = [args |-> args, kwargs |-> kwargs]
    /\ op' = [name |-> "init", inst |-> 0, extra |-> <<>>]
    /\ UNCHANGED <<PY2, KwOrdered, objs, bound, sr, forms, outs>>

\* A call that consumes the keyword entries it reads
Call_consuming(o) ==
    /\ state = "built"
    /\ op' = [name |-> "call", inst |-> o, extra |-> <<>>]
    /\ result' = GetattrRepr_call(self, objs[o])
    /\ bound' = NoBound
    /\ self' = [self EXCEPT !.kwargs = <<>>]
    /\ UNCHANGED <<PY2, KwOrdered, objs, state, ctor, sr, forms, outs>>

\* descriptor(instance)
Call(o) ==
    /\ state = "built"
    /\ op' = [name |-> "call", inst |-> o, extra |-> <<>>]
    /\ result' = GetattrRepr_call(self, objs[o])
    /\ bound' = NoBound
    /\ UNCHANGED <<PY2, KwOrdered, objs, state, ctor, self, sr, forms, outs>>

\* The attribute lookup: through instance o, or through the class (o = 0)
Get(o) ==
    /\ state = "built"
    /\ bound' = GetattrRepr_get(o)
    /\ op' = [name |-> "get", inst |-> o, extra |-> <<>>]
    /\ result' = NoResult
    /\ UNCHANGED <<PY2, KwOrdered, objs, state, ctor, self, sr, forms, outs>>

\* The call of what the lookup returned, as repr(o) makes it (no argument),
\* or with one argument
Invoke(extra) ==
    /\ op.name = "get"
    /\ op' = [name |-> "invoke", inst |-> op.inst, extra |-> extra]
    /\ result' = call_bound(bound, self, extra)
    /\ UNCHANGED <<PY2, KwOrdered, objs, state, ctor, self, bound, sr, forms, outs>>

Next ==
    \/ \E args \in CtorArgs, kwargs \in CtorKwargs : Construct(args, kwargs)
    \/ \E o \in ObjIds : Call(o)
    \/ \E o \in ObjIds \cup {0} : Get(o)
    \/ \E extra \in {<<>>, <<1>>} : Invoke(extra)

Spec == Init /\ [][Next]_vars

---------------------------------------------------------------------------
(* The three spellings of one keyword: GetattrRepr(p1, ..., pn, [c]),        *)
(* GetattrRepr(p1, ..., pn, [(c, c)]) and GetattrRepr(p1, ..., pn, c=c).     *)
(* ctor holds the names p1..pn and the keyword as (c, c).                    *)

SugarNames == {PyStr("a"), PyStr("b"), PyStr("k")}

FormArgs(i) ==
    CASE i = 1 -> ctor.args \o <<PyList(<<ctor.kwargs[1].e[1]>>)>>
      [] i = 2 -> ctor.args \o <<PyList(<<ctor.kwargs[1]>>)>>
      [] i = 3 -> ctor.args

FormKwargs(i) == IF i = 3 THEN ctor.kwargs ELSE <<>>

InitSugar ==
    /\ RuntimeInit
    /\ \E names \in SeqsUpTo(SugarNames, MaxPos), c \in SugarNames :
          ctor = [args |-> names, kwargs |-> <<PyTuple(<<c, c>>)>>]
    /\ state = "none" /\ self = NoSelf /\ bound = NoBound
    /\ op = NoOp /\ result = NoResult /\ sr = NoSr
    /\ forms = NoForms /\ outs = NoOuts

BuildForm(i) ==
    /\ ~forms[i].built
    /\ \E kwitems \in iteritems(FormKwargs(i)) :
         LET r == GetattrRepr_init(FormArgs(i), kwitems)
         IN  /\ r.kind = "return"
             /\ forms' = [forms EXCEPT ![i] = [built |-> TRUE, args |-> r.val.args,
                                               kwargs |-> r.val.kwargs]]
    /\ op' = [name |-> "init", inst |-> 0, extra |-> <<>>]
    /\ UNCHANGED <<PY2, KwOrdered, objs, state, ctor, self, bound, result, sr, outs>>

ApplyForms(o) ==
    /\ \A i \in 1..3 : forms[i].built
    /\ outs' = [i \in 1..3 |-> GetattrRepr_call(forms[i], objs[o])]
    /\ op' = [name |-> "apply", inst |-> o, extra |-> <<>>]
    /\ UNCHANGED <<PY2, KwOrdered, objs, state, ctor, self, bound, result, sr, forms>>

NextSugar ==
    \/ \E i \in 1..3 : BuildForm(i)
    \/ \E o \in ObjIds : ApplyForms(o)

SpecSugar == InitSugar /\ [][NextSugar]_vars

---------------------------------------------------------------------------
(* Claims about standard_repr, under SpecRepr *)

\* A string label, in the runtime's terms: text, and on Python 2 also a str
\* (bytes).
IsText(v) == v.t = "str" \/ (PY2 /\ v.t = "bytes")

SrV == IF sr.args = None THEN <<>> ELSE sr.args.e
SrK == IF sr.kwargs = None THEN <<>> ELSE sr.kwargs.e

RECURSIVE CommaSeparated(_)
CommaSeparated(items) ==
    IF items = <<>> THEN ""
    ELSE IF Len(items) = 1 THEN items[1]
    ELSE CommaSeparated(Front(items)) \o ", " \o Last(items)

Rendered(cls, V, K) ==
    identifier(cls) \o "("
    \o CommaSeparated([i \in 1..Len(V) |-> repr(V[i])]
                      \o [i \in 1..Len(K) |-> K[i].e[1].s \o "=" \o repr(K[i].e[2])])
    \o ")"

\* C1: with string labels, standard_repr(o, V, K) returns identifier(type(o)),
\* "(", the items joined by ", " and ")": repr(v) for each v of V in order,
\* then label=repr(value) for each pair of K in order; None stands for an
\* empty sequence, and with both empty the result is identifier(type(o)) "()".
C1_StandardReprFormat ==
    (op.name = "standard_repr" /\ \A i \in 1..Len(SrK) : IsText(SrK[i].e[1])) =>
        /\ result = Return(Rendered(objs[sr.obj].cls, SrV, SrK))
        /\ (SrV = <<>> /\ SrK = <<>>) =>
              result.val = objs[sr.obj].cls.module \o "." \o objs[sr.obj].cls.name \o "()"
        /\ (/\ sr.obj = 1
            /\ sr.args = PyList(<<PyInt(-1), None>>)
            /\ sr.kwargs = PyList(<<PyTuple(<<PyStr("arg"), PyInt(12)>>),
                                    PyTuple(<<PyStr("kw"), PyBool(TRUE)>>)>>)) =>
              result.val = "testreprutils.DummyClass(-1, None, arg=12, kw=True)"

C1_Witness ==
    /\ op.name = "standard_repr" /\ result.kind = "return"
    /\ Len(SrV) = 2 /\ Len(SrK) = 2 /\ SrV[1] # SrV[2] /\ SrK[1] # SrK[2]

\* C5: standard_repr raises TypeError and returns nothing whenever some pair
\* of the keyword sequence has a label that is not a string, at any position
\* and whatever the positional values.
C5_NonStringLabelRaises ==
    (op.name = "standard_repr" /\ \E i \in 1..Len(SrK) : ~IsText(SrK[i].e[1])) =>
        result = Raise("TypeError")

C5_Witness ==
    /\ op.name = "standard_repr" /\ result.kind = "TypeError"
    /\ Len(SrK) = 2 /\ IsText(SrK[1].e[1]) /\ SrK[2].e[1] = PyInt(1)
    /\ Len(SrV) > 0

---------------------------------------------------------------------------
(* Claims about GetattrRepr, under Spec *)

IsName(v) == v.t \in {"str", "bytes"}
TheObj == objs[op.inst]
Has(o, name) == IsText(name) /\ name.s \in DOMAIN o.attrs
IsEntry(item) == item.t = "tuple" /\ Len(item.e) = 2

\* C2: on an instance that has every attribute the spec names, the call
\* returns what standard_repr returns for the attribute values of the
\* positional names, in order, and the (label, attribute value) pairs of the
\* keyword entries, in order.
C2_CallIsStandardRepr ==
    (/\ op.name = "call"
     /\ \A i \in 1..Len(self.args) : Has(TheObj, self.args[i])
     /\ \A i \in 1..Len(self.kwargs) :
           IsEntry(self.kwargs[i]) /\ Has(TheObj, self.kwargs[i].e[2])) =>
        /\ result = standard_repr(TheObj,
              PyList([i \in 1..Len(self.args) |-> TheObj.attrs[self.args[i].s]]),
              PyList([i \in 1..Len(self.kwargs) |->
                        PyTuple(<<self.kwargs[i].e[1],
                                  TheObj.attrs[self.kwargs[i].e[2].s]>>)]))
        /\ (/\ ~PY2 /\ op.inst = 1 /\ self.kwargs = <<>>
            /\ self.args = <<PyStr("a"), PyStr("b")>>) =>
              result = Return("testreprutils.DummyClass(1, 'asdf')")
        /\ (/\ op.inst = 2 /\ self.args = <<>>
            /\ self.kwargs = <<PyTuple(<<PyStr("k"), PyStr("a")>>)>>) =>
              result = Return("__main__.MyClass(k=None)")

C2_Witness ==
    /\ op.name = "call" /\ op.inst = 1 /\ result.kind = "return"
    /\ self.args = <<PyStr("b"), PyStr("a")>>
    /\ self.kwargs = <<PyTuple(<<PyStr("k"), PyStr("a")>>), PyTuple(<<PyStr("b"), PyStr("b")>>)>>

\* The call GetattrRepr(n1, ..., nk, T, **E) with T a list or a tuple
HasTrailing ==
    /\ state = "built" /\ Len(ctor.args) > 0
    /\ Last(ctor.args).t \in {"list", "tuple"}
TrailingOf == Last(ctor.args).e
Expanded(item) == IF IsText(item) THEN PyTuple(<<item, item>>) ELSE item
ExplicitPart == SubSeq(self.kwargs, Len(TrailingOf) + 1, Len(self.kwargs))
TrailingPartExact ==
    /\ self.args = Front(ctor.args)
    /\ Len(self.kwargs) = Len(TrailingOf) + Len(ctor.kwargs)
    /\ \A i \in 1..Len(TrailingOf) : self.kwargs[i] = Expanded(TrailingOf[i])

\* C4 as stated: after GetattrRepr(n1, ..., nk, T, **E) the positional names
\* are (n1, ..., nk), and the keyword entries are the expansion of T in
\* collection order followed by the entries of E in the order supplied.
C4_ExplicitInSuppliedOrder ==
    HasTrailing => (TrailingPartExact /\ ExplicitPart = ctor.kwargs)

\* C4, amended: the positional names are (n1, ..., nk); the keyword entries
\* are the expansion of T in collection order (a bare name n as (n, n), a pair
\* as it is), followed by every entry of E exactly once, in the order the
\* runtime iterates the keyword dict: the order supplied when the runtime
\* keeps it, some permutation of it otherwise.  Nothing is dropped or merged.
C4_TrailingThenExplicit ==
    HasTrailing =>
        /\ TrailingPartExact
        /\ \E p \in Perms(Len(ctor.kwargs)) :
              \A i \in 1..Len(ctor.kwargs) : ExplicitPart[i] = ctor.kwargs[p[i]]
        /\ KwOrdered => ExplicitPart = ctor.kwargs

\* T holds a bare name and a pair, E two keywords, the label k is in both
C4_Witness ==
    /\ HasTrailing
    /\ ctor.args = <<PyStr("a"), PyList(<<PyStr("b"), PyTuple(<<PyStr("k"), PyStr("a")>>)>>)>>
    /\ ctor.kwargs = <<PyTuple(<<PyStr("k"), PyStr("a")>>), PyTuple(<<PyStr("b"), PyStr("b")>>)>>
    /\ self.kwargs = <<PyTuple(<<PyStr("b"), PyStr("b")>>), PyTuple(<<PyStr("k"), PyStr("a")>>),
                       PyTuple(<<PyStr("k"), PyStr("a")>>), PyTuple(<<PyStr("b"), PyStr("b")>>)>>

\* An attribute the spec names and the instance lacks
Lacks(o, name) == IsName(name) /\ name.s \notin DOMAIN o.attrs
LacksSome ==
    \/ \E i \in 1..Len(self.args) : Lacks(TheObj, self.args[i])
    \/ \E i \in 1..Len(self.kwargs) :
          IsEntry(self.kwargs[i]) /\ Lacks(TheObj, self.kwargs[i].e[2])

\* C6: a call on an instance that lacks an attribute named in the spec, as a
\* positional entry or as the attribute of a keyword entry, raises
\* AttributeError and returns no string.
C6_MissingAttributeRaises ==
    (op.name = "call" /\ LacksSome) => result = Raise("AttributeError")

\* C6 where every entry of the spec is a name or a pair with a name: the case
\* a validating constructor would leave.
C6_OnWellFormedSpecs ==
    (/\ op.name = "call" /\ LacksSome
     /\ \A i \in 1..Len(self.args) : IsText(self.args[i])
     /\ \A i \in 1..Len(self.kwargs) :
           IsEntry(self.kwargs[i]) /\ IsText(self.kwargs[i].e[2])) =>
        result = Raise("AttributeError")

\* C7: the lookup through the class returns the descriptor itself; the lookup
\* through an instance o returns a callable that, called with no argument,
\* gives what the descriptor gives on o, and that takes no further argument.
C7_DescriptorBinding ==
    /\ (op.name = "get" /\ op.inst = 0) => bound = [kind |-> "descriptor", inst |-> 0]
    /\ (op.name = "get" /\ op.inst # 0) => bound.kind = "method"
    /\ (op.name = "invoke" /\ op.inst # 0 /\ op.extra = <<>>) =>
          result = GetattrRepr_call(self, TheObj)
    /\ (op.name = "invoke" /\ op.inst # 0 /\ op.extra # <<>>) =>
          result = Raise("TypeError")
    /\ (/\ op.name = "invoke" /\ op.inst = 1 /\ op.extra = <<>> /\ PY2
        /\ self.args = <<PyStr("a")>> /\ self.kwargs = <<PyTuple(<<PyStr("b"), PyStr("b")>>)>>) =>
          result = Return("testreprutils.DummyClass(1, b=u'asdf')")

C7_Witness ==
    /\ op.name = "invoke" /\ op.inst = 1 /\ op.extra = <<>>
    /\ bound.kind = "method" /\ result.kind = "return"
    /\ Len(self.args) > 0 /\ Len(self.kwargs) > 0

\* C8: after a successful construction every positional name of the
\* descriptor is a plain name (a str or bytes), and a call whose argument
\* before the last is a collection is rejected.
C8_PositionalsValidated ==
    /\ state = "built" => \A i \in 1..Len(self.args) : IsName(self.args[i])
    /\ (/\ state # "none"
        /\ \E i \in 1..(Len(ctor.args) - 1) : ctor.args[i].t \in {"list", "tuple"}) =>
          state = "failed"

\* The last argument was removed from the positional names and iterated (a
\* construction fails only in iterating it).
TakenAsTrailing == state = "failed" \/ Len(self.args) = Len(ctor.args) - 1

\* C9: the last positional argument is taken as the trailing collection
\* (removed from the positional names and iterated) if and only if it is
\* neither a str nor a bytes.
C9_TrailingIffNotStrOrBytes ==
    (state # "none" /\ Len(ctor.args) > 0) =>
        (TakenAsTrailing <=> ~IsName(Last(ctor.args)))

\* C10: once built, no invocation (a call, a lookup, a call of what the
\* lookup returned; returning or raising) changes the descriptor's positional
\* names, its keyword entries or the instances.
C10_SpecImmutable ==
    [][state = "built" => (self' = self /\ objs' = objs /\ state' = "built")]_vars

\* a call made through the descriptor protocol has raised
C10_Witness ==
    /\ state = "built" /\ op.name = "invoke" /\ result.kind = "AttributeError"
    /\ Len(self.kwargs) > 0

---------------------------------------------------------------------------
(* Claims about the sugar, under SpecSugar *)

\* C3: GetattrRepr(p1, ..., pn, [c]), GetattrRepr(p1, ..., pn, [(c, c)]) and
\* GetattrRepr(p1, ..., pn, c=c) have the same positional names p1..pn and
\* the same keyword entries, the one pair (c, c), and give the same outcome
\* on any instance.
C3_SugarEquivalence ==
    /\ \A i, j \in 1..3 :
          (forms[i].built /\ forms[j].built) =>
              /\ forms[i].args = forms[j].args /\ forms[i].kwargs = forms[j].kwargs
              /\ forms[i].args = ctor.args
              /\ forms[i].kwargs = <<PyTuple(<<ctor.kwargs[1].e[1], ctor.kwargs[1].e[1]>>)>>
    /\ op.name = "apply" => (outs[1] = outs[2] /\ outs[2] = outs[3])
    /\ (/\ op.name = "apply" /\ op.inst = 1 /\ ~PY2
        /\ ctor.args = <<PyStr("a"), PyStr("b")>> /\ ctor.kwargs[1].e[1] = PyStr("b")) =>
          outs[1] = Return("testreprutils.DummyClass(1, 'asdf', b='asdf')")

C3_Witness ==
    /\ op.name = "apply" /\ Len(ctor.args) = 2
    /\ \A i \in 1..3 : forms[i].built /\ outs[i].kind = "return"

=============================================================================
